---- MODULE Spec2Model ----
(***************************************************************************)
(* Model of the palette quantiser of src/main.rs: the two palette lookups  *)
(* (find_closest_palette_index, find_closest_palette_color with its HSV    *)
(* tie-break), the error-diffusion sweep and the ordered (Bayer) dither.   *)
(*                                                                         *)
(* Floating point: the f32 values of rgb_to_hsv are modelled as exact      *)
(* rationals <<n, d>> (d > 0); the only use the code makes of them is the  *)
(* truncating cast of an absolute difference to i64.  Kernel weights (f64) *)
(* are rationals <<n, d>> with d a power of two, for which the f64 product *)
(* error * weight is exact.  On every lookup with tied candidates that the *)
(* inputs below reach, the truncated differences of the exact values equal *)
(* those of the f32 values; elsewhere f32 rounding can move a difference   *)
(* across an integer (a saturation difference of exactly 221 becomes 220   *)
(* for the pixel (-399,-444,-2)).                                          *)
(***************************************************************************)
EXTENDS Integers, Sequences, FiniteSets, TLC

VARIABLES
    palette,          \* Converter.palette : Vec<(i32,i32,i32)>
    offsets,          \* Converter.offsets : Vec<(i32,i32,f64)>
    width,            \* Converter.width
    height,           \* Converter.height
    image_org,        \* Converter.image_org, row-major sequence of pixels
    image_converted,  \* Converter.image_converted, row-major sequence of pixels
    r_buf, g_buf, b_buf,  \* the working buffers of the running pass
    pos,              \* number of pixels the working loop has visited
    pc,               \* "ready", "working", "done", "panicked"
    pass,             \* "none", or the name of the function that was called
    pixel,            \* argument of the last palette lookup
    found_color,      \* result of find_closest_palette_color(pixel)
    found_index       \* result of find_closest_palette_index(pixel)

vars == <<palette, offsets, width, height, image_org, image_converted,
          r_buf, g_buf, b_buf, pos, pc, pass, pixel, found_color, found_index>>

(***************************************************************************)
(* Integer helpers.                                                        *)
(***************************************************************************)
Abs(n) == IF n < 0 THEN -n ELSE n

Max2(a, b) == IF a >= b THEN a ELSE b

Min2(a, b) == IF a <= b THEN a ELSE b

RECURSIVE Gcd(_, _)
Gcd(a, b) == IF b = 0 THEN a ELSE Gcd(b, a % b)

\* A cast of a real n/d (d > 0) to an integer type rounds toward zero.
TruncDiv(n, d) == IF n >= 0 THEN n \div d ELSE -((-n) \div d)

(***************************************************************************)
(* Exact rationals <<n, d>>, d > 0, in lowest terms.                       *)
(***************************************************************************)
Rat(n, d) ==
    LET s == IF d < 0 THEN -1 ELSE 1
        g == Gcd(Abs(n), Abs(d))
    IN  IF n = 0 THEN <<0, 1>> ELSE <<(s * n) \div g, (s * d) \div g>>

RatSub(p, q) ==
    LET g == Gcd(p[2], q[2])
    IN  Rat(p[1] * (q[2] \div g) - q[1] * (p[2] \div g), (p[2] \div g) * q[2])

RatAbs(p) == <<Abs(p[1]), p[2]>>

RatTrunc(p) == TruncDiv(p[1], p[2])

\* x % 6.0 on floats is fmod: x - 6 * trunc(x / 6), the sign of x.
Fmod6(p) == Rat(p[1] - 6 * p[2] * TruncDiv(p[1], 6 * p[2]), p[2])

(***************************************************************************)
(* rgb_to_hsv.  The channels are divided by 255.0; max, min and delta are  *)
(* kept here as integers in units of 1/255.                                *)
(***************************************************************************)
rgb_to_hsv(c) ==
    LET r == c[1]
        g == c[2]
        b == c[3]
        max == Max2(Max2(r, g), b)
        min == Min2(Min2(r, g), b)
        delta == max - min
        h == IF delta = 0 THEN <<0, 1>>
             ELSE IF max = r THEN
                 LET q == Fmod6(Rat(g - b, delta)) IN Rat(60 * q[1], q[2])
             ELSE IF max = g THEN Rat(60 * ((b - r) + 2 * delta), delta)
             ELSE Rat(60 * ((r - g) + 4 * delta), delta)
        s == IF max = 0 THEN <<0, 1>> ELSE Rat(delta, max)
    IN  <<h, s, Rat(max, 255)>>

(***************************************************************************)
(* Palette lookups.                                                        *)
(***************************************************************************)
\* dr*dr + dg*dg + db*db
Distance(p, c) ==
    (p[1] - c[1]) * (p[1] - c[1]) + (p[2] - c[2]) * (p[2] - c[2])
        + (p[3] - c[3]) * (p[3] - c[3])

\* Option::unwrap on None
PANIC == <<"panic">>

\* Mutant: the last of the minimal elements (what max_by_key does on ties).
RECURSIVE MinByKeyLast(_, _, _, _)
MinByKeyLast(pal, p, i, best) ==
    IF i > Len(pal) THEN best
    ELSE MinByKeyLast(pal, p, i + 1,
            IF Distance(p, pal[i]) <= Distance(p, pal[best]) THEN i ELSE best)

\* Iterator::min_by_key: the first of the minimal elements.
RECURSIVE MinByKeyFrom(_, _, _, _)
MinByKeyFrom(pal, p, i, best) ==
    IF i > Len(pal) THEN best
    ELSE MinByKeyFrom(pal, p, i + 1,
            IF Distance(p, pal[i]) < Distance(p, pal[best]) THEN i ELSE best)

\* The returned usize index is 0-based.
find_closest_palette_index(pal, p) ==
    IF Len(pal) = 0 THEN PANIC ELSE MinByKeyFrom(pal, p, 2, 1) - 1

\* The key of the sort_by_key closure: each HSV difference is cast to i64
\* (truncated) before it is squared.
HsvKey(p, c) ==
    LET hp == rgb_to_hsv(p)
        hc == rgb_to_hsv(c)
        dh == RatTrunc(RatAbs(RatSub(hp[1], hc[1])))
        ds == RatTrunc(RatAbs(RatSub(hp[2], hc[2])))
        dv == RatTrunc(RatAbs(RatSub(hp[3], hc[3])))
    IN  dh * dh + ds * ds + dv * dv

\* Insertion of e after the elements whose key is <= key(e): a stable sort.
RECURSIVE InsertByKey(_, _, _)
InsertByKey(sorted, p, e) ==
    IF sorted = <<>> THEN <<e>>
    ELSE IF HsvKey(p, Head(sorted)) <= HsvKey(p, e)
         THEN <<Head(sorted)>> \o InsertByKey(Tail(sorted), p, e)
         ELSE <<e>> \o sorted

RECURSIVE SortByKey(_, _)
SortByKey(cands, p) ==
    IF cands = <<>> THEN <<>>
    ELSE InsertByKey(SortByKey(SubSeq(cands, 1, Len(cands) - 1), p), p,
                     cands[Len(cands)])

\* Mutant: the minimum is not searched for, the first entry's distance is used.
MinDistanceOfFirst(pal, p) == Distance(p, pal[1])

RECURSIVE MinDistance(_, _)
MinDistance(pal, p) ==
    IF Len(pal) = 1 THEN Distance(p, pal[1])
    ELSE Min2(Distance(p, pal[1]), MinDistance(Tail(pal), p))

Candidates(pal, p) ==
    LET m == MinDistance(pal, p)
        IsMin(c) == Distance(p, c) = m
    IN  SelectSeq(pal, IsMin)

\* Mutant: an empty palette silently yields black instead of panicking.
FindClosestOrBlack(pal, p) ==
    IF Len(pal) = 0 THEN <<0, 0, 0>>
    ELSE LET candidates == Candidates(pal, p)
         IN  IF Len(candidates) = 1 THEN candidates[1]
             ELSE SortByKey(candidates, p)[1]

find_closest_palette_color(pal, p) ==
    IF Len(pal) = 0 THEN PANIC
    ELSE LET candidates == Candidates(pal, p)
         IN  IF Len(candidates) = 1 THEN candidates[1]
             ELSE SortByKey(candidates, p)[1]

(***************************************************************************)
(* Buffers and the conversions between integer widths.                     *)
(***************************************************************************)
\* fn idx: y * width + x, 0-based.
idx(w, x, y) == y * w + x

\* A cast to u32 keeps the low 32 bits; the value is held as two 16-bit
\* limbs <<high, low>>.
AsU32(v) == <<(v \div 65536) % 65536, v % 65536>>

U32Less(a, b) == a[1] < b[1] \/ (a[1] = b[1] /\ a[2] < b[2])

\* Mutant: a saturating conversion.
SaturateU8(v) == IF v < 0 THEN 0 ELSE IF v > 255 THEN 255 ELSE v

\* A cast to u8 keeps the low 8 bits.
AsU8(v) == v % 256

\* Mutant: only the right and bottom edges are tested.
InsideRightBottom(w, h, nx, ny) ==
    /\ U32Less(nx, AsU32(w - 1))
    /\ U32Less(ny, AsU32(h - 1))

\* nx > 0 && nx < self.width-1 && ny > 0 && ny < self.height-1
InsideBorder(w, h, nx, ny) ==
    /\ U32Less(AsU32(0), nx)
    /\ U32Less(nx, AsU32(w - 1))
    /\ U32Less(AsU32(0), ny)
    /\ U32Less(ny, AsU32(h - 1))

\* Mutant: the product is rounded down instead of toward zero.
ScaledFloor(error, factor) == (error * factor[1]) \div factor[2]

\* (error as f64 * factor) as i32, factor = <<n, d>>
Scaled(error, factor) == TruncDiv(error * factor[1], factor[2])

\* Mutant: the offset is subtracted from the position instead of added.
ApplyOffsetMirrored(buf, w, h, x, y, error, off) ==
    LET nx == AsU32(x - off[1])
        ny == AsU32(y - off[2])
    IN  IF InsideBorder(w, h, nx, ny)
        THEN LET i == idx(w, nx[2], ny[2]) + 1
             IN  [buf EXCEPT ![i] = @ + Scaled(error, off[3])]
        ELSE buf

\* One entry of self.offsets applied to one working buffer.
ApplyOffset(buf, w, h, x, y, error, off) ==
    LET nx == AsU32(x + off[1])
        ny == AsU32(y + off[2])
    IN  IF InsideBorder(w, h, nx, ny)
        THEN LET i == idx(w, nx[2], ny[2]) + 1
             IN  [buf EXCEPT ![i] = @ + Scaled(error, off[3])]
        ELSE buf

\* for &(dx, dy, factor) in &self.offsets, in order
RECURSIVE ApplyOffsets(_, _, _, _, _, _, _, _)
ApplyOffsets(buf, w, h, x, y, error, offs, k) ==
    IF k > Len(offs) THEN buf
    ELSE ApplyOffsets(ApplyOffset(buf, w, h, x, y, error, offs[k]),
                      w, h, x, y, error, offs, k + 1)

\* Mutant: the visited pixel is not overwritten with the palette value.
DiffuseChannelKeepOld(buf, w, h, x, y, new, offs) ==
    LET i == idx(w, x, y) + 1
        error == buf[i] - new
    IN  ApplyOffsets(buf, w, h, x, y, error, offs, 1)

\* The body of the working loop of error_diffusion for one buffer: the
\* visited pixel takes the palette value, then the error is distributed.
DiffuseChannel(buf, w, h, x, y, new, offs) ==
    LET i == idx(w, x, y) + 1
        error == buf[i] - new
    IN  ApplyOffsets([buf EXCEPT ![i] = new], w, h, x, y, error, offs, 1)

\* image::Rgb([r as u8, g as u8, b as u8]) for every position
Narrow(rb, gb, bb) ==
    [i \in 1..Len(rb) |-> <<AsU8(rb[i]), AsU8(gb[i]), AsU8(bb[i])>>]

(***************************************************************************)
(* The threshold table of bayer.                                           *)
(***************************************************************************)
bayer_table ==
    <<  0, 32,  8, 40,  2, 34, 10, 42,  48, 16, 56, 24, 50, 18, 58, 26,
       12, 44,  4, 36, 14, 46,  6, 38,  60, 28, 52, 20, 62, 30, 54, 22,
        3, 35, 11, 43,  1, 33,  9, 41,  51, 19, 59, 27, 49, 17, 57, 25,
       15, 47,  7, 39, 13, 45,  5, 37,  63, 31, 55, 23, 61, 29, 53, 21 >>

\* Mutant: the table is read transposed.
bayer_idx_transposed(x, y) == (x % 8) * 8 + (y % 8)

bayer_idx(x, y) == (y % 8) * 8 + (x % 8)

\* v.clamp(0, 255)
rng(v) == IF v < 0 THEN 0 ELSE IF v > 255 THEN 255 ELSE v

\* The triple handed to find_closest_palette_color at (x, y).
BayerAdjusted(c, x, y) ==
    LET by == bayer_table[bayer_idx(x, y) + 1]
    IN  <<rng(c[1] + by - 32), rng(c[2] + by - 32), rng(c[3] + by - 32)>>

(***************************************************************************)
(* Inputs.                                                                 *)
(***************************************************************************)
MaxWidth == 9
MaxHeight == 3
MaxPaletteLen == 3

NONE == <<>>

PixelChoices == << <<10, 10, 10>>, <<200, 200, 200>>, <<240, 128, 20>> >>

\* The image files read: pixel (x, y) is PixelChoices[(a*x + b*y + c) mod 3].
Image(w, h, a, b, c) ==
    [i \in 1..(w * h) |->
        PixelChoices[((a * ((i - 1) % w) + b * ((i - 1) \div w) + c) % 3) + 1]]

Images(w, h) == {Image(w, h, a, b, c) : a \in 0..2, b \in 0..2, c \in 0..2}

\* The fallbacks of Converter::new
FallbackPalette == << <<0, 0, 0>> >>
FallbackOffsets == << <<0, 0, <<0, 1>>>> >>

\* def/palette.toml
Palettes ==
    { <<>>,
      FallbackPalette,
      << <<0, 0, 0>>, <<255, 255, 255>> >>,
      << <<20, 20, 20>>, <<0, 0, 0>>, <<255, 0, 0>>, <<255, 255, 255>> >> }

\* def/offset.toml
Kernels ==
    { <<>>,
      FallbackOffsets,
      << <<1, 0, <<7, 16>>>>, <<-1, 1, <<3, 16>>>>,
         <<0, 1, <<5, 16>>>>, <<1, 1, <<1, 16>>>> >>,
      << <<1, 1, <<1, 4>>>>, <<1, 1, <<1, 2>>>>, <<0, 1, <<1, 1>>>> >>,
      << <<-1, -1, <<1, 1>>>>, <<1, 0, <<1, 2>>>> >>,
      << <<0, 0, <<-3, 2>>>> >>,
      << <<-2, -5, <<1, 1>>>>, <<1, 1, <<1, 2>>>>, <<9, 4, <<2, 1>>>> >>,
      << <<0, 0, <<0, 1>>>>, <<1, 0, <<0, 1>>>>, <<-1, 0, <<0, 1>>>> >> }

LookupColors ==
    { <<0, 0, 0>>, <<2, 2, 2>>, <<4, 2, 2>>, <<10, 10, 10>>,
      <<255, 255, 255>> }

LookupPixels ==
    LookupColors \cup
    { <<1, 1, 1>>, <<3, 3, 3>>, <<5, 5, 5>>, <<3, 2, 2>>, <<128, 128, 128>>,
      <<300, 300, 300>>, <<-20, -20, -20>>, <<260, -3, 128>> }

SeqsUpTo(S, n) == UNION {[1..k -> S] : k \in 0..n}

(***************************************************************************)
(* The converter after Converter::new().read_image(..).                    *)
(***************************************************************************)
Idle ==
    /\ image_converted = <<>>      \* RgbImage::default(), 0 x 0
    /\ r_buf = <<>> /\ g_buf = <<>> /\ b_buf = <<>>
    /\ pos = 0
    /\ pc = "ready"
    /\ pass = "none"
    /\ pixel = NONE
    /\ found_color = NONE
    /\ found_index = NONE

Init ==
    /\ palette \in Palettes
    /\ offsets \in Kernels
    /\ width \in 0..MaxWidth
    /\ height \in 0..MaxHeight
    /\ image_org \in Images(width, height)
    /\ Idle

\* The converter after Converter::new() alone: no image, the loaded palette.
InitLookup ==
    /\ palette \in SeqsUpTo(LookupColors, MaxPaletteLen)
    /\ offsets = FallbackOffsets
    /\ width = 0
    /\ height = 0
    /\ image_org = <<>>
    /\ Idle

(***************************************************************************)
(* error_diffusion                                                         *)
(***************************************************************************)
Channel(img, k) == [i \in 1..Len(img) |-> img[i][k]]

\* "make buffer"
MakeBuffer(name) ==
    /\ pc = "ready"
    /\ pass = "none"
    /\ r_buf' = Channel(image_org, 1)
    /\ g_buf' = Channel(image_org, 2)
    /\ b_buf' = Channel(image_org, 3)
    /\ pos' = 0
    /\ pc' = "working"
    /\ pass' = name
    /\ UNCHANGED <<palette, offsets, width, height, image_org,
                   image_converted, pixel, found_color, found_index>>

error_diffusion_begin == MakeBuffer("error_diffusion")

\* "working": one iteration of the inner loop, at x = pos % width,
\* y = pos / width.
error_diffusion_step ==
    /\ pc = "working"
    /\ pass = "error_diffusion"
    /\ pos < width * height
    /\ LET x == pos % width
           y == pos \div width
           i == idx(width, x, y) + 1
           old_pixel == <<r_buf[i], g_buf[i], b_buf[i]>>
           new_pixel == find_closest_palette_color(palette, old_pixel)
       IN  IF new_pixel = PANIC
           THEN /\ pc' = "panicked"
                /\ UNCHANGED <<r_buf, g_buf, b_buf, pos>>
           ELSE /\ r_buf' = DiffuseChannel(r_buf, width, height, x, y,
                                           new_pixel[1], offsets)
                /\ g_buf' = DiffuseChannel(g_buf, width, height, x, y,
                                           new_pixel[2], offsets)
                /\ b_buf' = DiffuseChannel(b_buf, width, height, x, y,
                                           new_pixel[3], offsets)
                /\ pos' = pos + 1
                /\ pc' = "working"
    /\ UNCHANGED <<palette, offsets, width, height, image_org,
                   image_converted, pass, pixel, found_color, found_index>>

\* "create new image"
CreateNewImage(name) ==
    /\ pc = "working"
    /\ pass = name
    /\ pos = width * height
    /\ image_converted' = Narrow(r_buf, g_buf, b_buf)
    /\ pc' = "done"
    /\ UNCHANGED <<palette, offsets, width, height, image_org,
                   r_buf, g_buf, b_buf, pos, pass, pixel, found_color,
                   found_index>>

error_diffusion_finish == CreateNewImage("error_diffusion")

(***************************************************************************)
(* bayer                                                                   *)
(***************************************************************************)
bayer_begin == MakeBuffer("bayer")

bayer_step ==
    /\ pc = "working"
    /\ pass = "bayer"
    /\ pos < width * height
    /\ LET x == pos % width
           y == pos \div width
           i == idx(width, x, y) + 1
           c == find_closest_palette_color(palette,
                    BayerAdjusted(<<r_buf[i], g_buf[i], b_buf[i]>>, x, y))
       IN  IF c = PANIC
           THEN /\ pc' = "panicked"
                /\ UNCHANGED <<r_buf, g_buf, b_buf, pos>>
           ELSE /\ r_buf' = [r_buf EXCEPT ![i] = c[1]]
                /\ g_buf' = [g_buf EXCEPT ![i] = c[2]]
                /\ b_buf' = [b_buf EXCEPT ![i] = c[3]]
                /\ pos' = pos + 1
                /\ pc' = "working"
    /\ UNCHANGED <<palette, offsets, width, height, image_org,
                   image_converted, pass, pixel, found_color, found_index>>

bayer_finish == CreateNewImage("bayer")

(***************************************************************************)
(* The palette lookups called on their own.                                *)
(***************************************************************************)
FindColor ==
    /\ pc = "ready"
    /\ \E p \in LookupPixels :
        /\ pixel' = p
        /\ found_color' = find_closest_palette_color(palette, p)
        /\ found_index' = NONE
    /\ pass' = "find_closest_palette_color"
    /\ UNCHANGED <<palette, offsets, width, height, image_org,
                   image_converted, r_buf, g_buf, b_buf, pos, pc>>

FindIndex ==
    /\ pc = "ready"
    /\ \E p \in LookupPixels :
        /\ pixel' = p
        /\ found_index' = find_closest_palette_index(palette, p)
        /\ found_color' = NONE
    /\ pass' = "find_closest_palette_index"
    /\ UNCHANGED <<palette, offsets, width, height, image_org,
                   image_converted, r_buf, g_buf, b_buf, pos, pc>>

Next ==
    \/ error_diffusion_begin
    \/ error_diffusion_step
    \/ error_diffusion_finish
    \/ bayer_begin
    \/ bayer_step
    \/ bayer_finish

Spec == Init /\ [][Next]_vars

NextLookup == FindColor \/ FindIndex

SpecLookup == InitLookup /\ [][NextLookup]_vars

(***************************************************************************)
(* Properties of the palette lookups (checked under SpecLookup).           *)
(***************************************************************************)
Range(seq) == {seq[i] : i \in 1..Len(seq)}

AfterFindColor == pass = "find_closest_palette_color" /\ Len(palette) > 0

AfterFindIndex == pass = "find_closest_palette_index" /\ Len(palette) > 0

\* Non-negative reals as mixed numbers <<whole, n, d>>, 0 <= n < d.
Lcm(a, b) == (a \div Gcd(a, b)) * b

Mixed(n, d) == <<n \div d, n % d, d>>

RatSquare(q) == Mixed(q[1] * q[1], q[2] * q[2])

MixedAdd(a, b) ==
    LET l == Lcm(a[3], b[3])
        n == a[2] * (l \div a[3]) + b[2] * (l \div b[3])
    IN  <<a[1] + b[1] + n \div l, n % l, l>>

MixedLeq(a, b) ==
    LET l == Lcm(a[3], b[3])
    IN  \/ a[1] < b[1]
        \/ a[1] = b[1] /\ a[2] * (l \div a[3]) <= b[2] * (l \div b[3])

\* dhue^2 + dsaturation^2 + dvalue^2 on the real-valued components.
RealHsvDistance(p, c) ==
    LET hp == rgb_to_hsv(p)
        hc == rgb_to_hsv(c)
    IN  MixedAdd(MixedAdd(RatSquare(RatSub(hp[1], hc[1])),
                          RatSquare(RatSub(hp[2], hc[2]))),
                 RatSquare(RatSub(hp[3], hc[3])))

RealHsvLeq(p, c, d) ==
    c = d \/ MixedLeq(RealHsvDistance(p, c), RealHsvDistance(p, d))

\* Claim C1 as stated: when several palette entries attain the minimum
\* squared RGB distance, find_closest_palette_color returns the candidate
\* whose squared distance in real-valued HSV is minimal, the first of them
\* in palette order when several tie on it too.
C1_TieBreakByRealHsvDistance ==
    AfterFindColor =>
        LET cands == Candidates(palette, pixel)
            n == Len(cands)
            best == CHOOSE i \in 1..n :
                        /\ \A j \in 1..n : RealHsvLeq(pixel, cands[i], cands[j])
                        /\ \A j \in 1..(i - 1) :
                               ~RealHsvLeq(pixel, cands[j], cands[i])
        IN  n > 1 => found_color = cands[best]

\* Claim C2: for a non-empty palette find_closest_palette_color returns a
\* member of the palette at the minimum squared RGB distance from the pixel
\* (working values outside 0..255 included); a pixel equal to a palette entry
\* is mapped to itself, and a one-entry palette maps every pixel to its entry.
C2_ColorIsNearestMember ==
    AfterFindColor =>
        /\ found_color \in Range(palette)
        /\ \A c \in Range(palette) :
               Distance(pixel, found_color) <= Distance(pixel, c)
        /\ pixel \in Range(palette) => found_color = pixel
        /\ Len(palette) = 1 => found_color = palette[1]

\* A pixel above 255 looked up in a palette of several colours, and a pixel
\* that is itself the second entry of a palette.
C2_Witness ==
    /\ AfterFindColor
    /\ Len(palette) = 3
    /\ palette[1] # palette[2]
    /\ \/ pixel = <<300, 300, 300>> /\ found_color = <<255, 255, 255>>
       \/ pixel = palette[2] /\ found_color = pixel

\* Claim C7: for a non-empty palette find_closest_palette_index returns the
\* smallest index whose entry is at the minimum squared RGB distance from the
\* pixel; for a pixel equal to a palette entry the entry at that index is the
\* pixel, and for a one-entry palette the index is 0.
C7_IndexIsFirstMinimum ==
    AfterFindIndex =>
        LET i == found_index + 1
        IN  /\ i \in 1..Len(palette)
            /\ \A j \in 1..Len(palette) :
                   Distance(pixel, palette[i]) <= Distance(pixel, palette[j])
            /\ \A j \in 1..(i - 1) :
                   Distance(pixel, palette[j]) > Distance(pixel, palette[i])
            /\ pixel \in Range(palette) => palette[i] = pixel
            /\ Len(palette) = 1 => found_index = 0

\* Two entries tie at the minimum and are not the first of the palette: the
\* earlier of the two is returned.
C7_Witness ==
    /\ AfterFindIndex
    /\ palette = << <<255, 255, 255>>, <<2, 2, 2>>, <<4, 2, 2>> >>
    /\ pixel = <<3, 3, 3>>
    /\ found_index = 1

(***************************************************************************)
(* Properties of the passes (checked under Spec).                          *)
(***************************************************************************)
Diffusing == pass = "error_diffusion" /\ pc = "working"

Diffused == pass = "error_diffusion" /\ pc = "done"

Positions == 1..(width * height)

XOf(j) == (j - 1) % width

YOf(j) == (j - 1) \div width

OnBorder(j) ==
    XOf(j) = 0 \/ XOf(j) = width - 1 \/ YOf(j) = 0 \/ YOf(j) = height - 1

Working(j) == <<r_buf[j], g_buf[j], b_buf[j]>>

Nearest(c) == find_closest_palette_color(palette, c)

\* The product rounded to the nearest integer (halves away from zero).
RoundDiv(n, d) ==
    IF n >= 0 THEN (2 * n + d) \div (2 * d) ELSE -((2 * (-n) + d) \div (2 * d))

Amount(mode, error, factor) ==
    IF mode = "round" THEN RoundDiv(error * factor[1], factor[2])
    ELSE TruncDiv(error * factor[1], factor[2])

\* Kernel entry k, applied at position i, targets position j strictly inside
\* the buffer.
Targets(k, i, j) ==
    LET tx == XOf(i) + offsets[k][1]
        ty == YOf(i) + offsets[k][2]
    IN  /\ 1 <= tx /\ tx <= width - 2
        /\ 1 <= ty /\ ty <= height - 2
        /\ j = ty * width + tx + 1

RECURSIVE Received(_, _, _, _, _)
Received(mode, k, i, j, error) ==
    IF k = 0 THEN 0
    ELSE Received(mode, k - 1, i, j, error)
         + (IF Targets(k, i, j) THEN Amount(mode, error, offsets[k][3]) ELSE 0)

\* What one visit does to a working buffer when every kernel entry adds
\* Amount(mode, error, weight) to its target.
AfterVisit(mode, buf, ch) ==
    LET i == pos + 1
        new == Nearest(Working(i))[ch]
        error == buf[i] - new
    IN  [j \in 1..Len(buf) |->
            (IF j = i THEN new ELSE buf[j])
            + Received(mode, Len(offsets), i, j, error)]

VisitAdds(mode) ==
    (Diffusing /\ pc' = "working") =>
        /\ r_buf' = AfterVisit(mode, r_buf, 1)
        /\ g_buf' = AfterVisit(mode, g_buf, 2)
        /\ b_buf' = AfterVisit(mode, b_buf, 3)

\* Claim C3 as stated: every kernel entry whose target is strictly inside the
\* buffer adds round(error_channel * weight), the product rounded to the
\* nearest integer, to each working channel of its target.
C3_AddsRoundedProduct == [][VisitAdds("round")]_vars

\* Claim C3, amended: every kernel entry whose target is strictly inside the
\* buffer adds the product error_channel * weight truncated toward zero (the
\* cast to i32) to each working channel of its target, where error_channel is
\* the old working value minus the chosen palette value.
C3_AddsTruncatedProduct == [][VisitAdds("trunc")]_vars

FloydSteinberg ==
    << <<1, 0, <<7, 16>>>>, <<-1, 1, <<3, 16>>>>,
       <<0, 1, <<5, 16>>>>, <<1, 1, <<1, 16>>>> >>

\* A 3 x 3 image of (200,200,200) under the Floyd-Steinberg weights: after
\* four visits the centre has received -3, -17, -10 and -24 (the products
\* -3.4375, -17.1875, -10.3125, -24.0625 of the error -55).
C3_Witness ==
    /\ Diffusing
    /\ offsets = FloydSteinberg
    /\ palette = << <<0, 0, 0>>, <<255, 255, 255>> >>
    /\ width = 3 /\ height = 3
    /\ pos = 4
    /\ image_org[5] = <<200, 200, 200>>
    /\ Working(5) = <<146, 146, 146>>

\* Claim C4: error is added only to targets with 1 <= x <= width-2 and
\* 1 <= y <= height-2, whatever the signs of dx and dy: during the sweep a
\* border pixel holds its original value until it is visited and the palette
\* colour nearest to its original value afterwards, and the output at every
\* border pixel is find_closest_palette_color of its original value.
C4_BorderNeverReceivesError ==
    (pass = "error_diffusion" /\ pc \in {"working", "done"}
        /\ Len(palette) > 0) =>
        \A j \in Positions :
            OnBorder(j) =>
                /\ j > pos => Working(j) = image_org[j]
                /\ j <= pos => Working(j) = Nearest(image_org[j])
                /\ pc = "done" => image_converted[j] = Nearest(image_org[j])

\* A finished sweep whose kernel points up and to the left, on an image with
\* an interior, where the interior did receive error.
C4_Witness ==
    /\ Diffused
    /\ width >= 3 /\ height >= 3
    /\ \E k \in 1..Len(offsets) : offsets[k][1] < 0 /\ offsets[k][2] < 0
    /\ \E j \in Positions :
           ~OnBorder(j) /\ image_converted[j] # Nearest(image_org[j])

RanPass == pass \in {"error_diffusion", "bayer"}

M(row, col) == bayer_table[8 * row + col + 1]

Clamp(v) == Max2(0, Min2(255, v))

\* Claim C6: the output pixel of bayer at (x, y) is find_closest_palette_color
\* of clamp(original_channel + M[y mod 8][x mod 8] - 32, 0, 255) per channel,
\* M holding each of 0..63 exactly once; so two positions with the same
\* (x mod 8, y mod 8) and the same original pixel have the same output.
C6_BayerIsPointwise ==
    (pass = "bayer" /\ pc = "done" /\ Len(palette) > 0) =>
        /\ {M(row, col) : row \in 0..7, col \in 0..7} = 0..63
        /\ Len(bayer_table) = 64
        /\ \A j \in Positions :
               LET t == M(YOf(j) % 8, XOf(j) % 8) - 32
                   c == image_org[j]
               IN  image_converted[j]
                       = Nearest(<<Clamp(c[1] + t), Clamp(c[2] + t),
                                   Clamp(c[3] + t)>>)
        /\ \A j, k \in Positions :
               (/\ XOf(j) % 8 = XOf(k) % 8
                /\ YOf(j) % 8 = YOf(k) % 8
                /\ image_org[j] = image_org[k])
               => image_converted[j] = image_converted[k]

\* An image wider than the table, in which one original colour is mapped to
\* two palette colours at two positions and to the same colour at the two
\* positions x = 0 and x = 8 of a row.
C6_Witness ==
    /\ pass = "bayer" /\ pc = "done"
    /\ width = 9 /\ height >= 2
    /\ image_org[1] = image_org[9]
    /\ image_converted[1] = image_converted[9]
    /\ \E j \in Positions :
           image_org[j] = image_org[1] /\ image_converted[j] # image_converted[1]

ZeroKernel == \A k \in 1..Len(offsets) : offsets[k][3][1] = 0

Example2x2 ==
    /\ width = 2 /\ height = 2
    /\ image_org = << <<10, 10, 10>>, <<200, 200, 200>>,
                      <<10, 10, 10>>, <<200, 200, 200>> >>
    /\ palette = << <<0, 0, 0>>, <<255, 255, 255>> >>

\* Claim C8: with an empty kernel, or one whose weights are all 0,
\* error_diffusion maps every pixel on its own: the output at each position
\* is find_closest_palette_color of the original pixel there; the 2 x 2
\* example comes out black, white, black, white under error_diffusion and
\* under bayer.
C8_ZeroKernelMapsPointwise ==
    /\ (Diffused /\ ZeroKernel /\ Len(palette) > 0) =>
           \A j \in Positions : image_converted[j] = Nearest(image_org[j])
    /\ (Example2x2 /\ pc = "done" /\ (pass = "bayer" \/ ZeroKernel)) =>
           image_converted = << <<0, 0, 0>>, <<255, 255, 255>>,
                                <<0, 0, 0>>, <<255, 255, 255>> >>

\* A finished sweep with a non-empty kernel of zero weights over an image
\* with an interior and a palette of several colours.
C8_Witness ==
    /\ Diffused
    /\ ZeroKernel /\ Len(offsets) > 1
    /\ width >= 3 /\ height >= 3
    /\ Len(palette) > 1
    /\ \E j, k \in Positions : image_converted[j] # image_converted[k]

\* Claim C9: the final narrowing truncates: every output channel is the final
\* working value modulo 256, in 0..255, so 256 becomes 0 and -1 becomes 255.
C9_NarrowingWraps ==
    Diffused =>
        /\ Len(image_converted) = width * height
        /\ \A j \in Positions :
               \A ch \in 1..3 :
                   /\ image_converted[j][ch] \in 0..255
                   /\ (Working(j)[ch] - image_converted[j][ch]) % 256 = 0

\* A finished sweep with one final working value below 0 and one above 255.
C9_Witness ==
    /\ Diffused
    /\ \E j \in Positions :
           r_buf[j] < 0 /\ image_converted[j][1] = r_buf[j] + 256
    /\ \E j \in Positions :
           r_buf[j] > 255 /\ image_converted[j][1] = r_buf[j] - 256

ForwardKernel ==
    \A k \in 1..Len(offsets) :
        offsets[k][2] > 0 \/ (offsets[k][2] = 0 /\ offsets[k][1] > 0)

\* Claim C10: if every kernel entry points strictly forward in scan order and
\* the palette is not empty, a visited pixel is never modified again: at every
\* step of the sweep the visited pixels keep their values, which are palette
\* colours, and every pixel of the converted image is a palette colour.
C10_VisitedPixelsAreFinal ==
    [][(pass = "error_diffusion" /\ pc = "working" /\ ForwardKernel
            /\ Len(palette) > 0) =>
          /\ \A j \in 1..pos :
                 /\ Working(j) \in Range(palette)
                 /\ r_buf'[j] = r_buf[j]
                 /\ g_buf'[j] = g_buf[j]
                 /\ b_buf'[j] = b_buf[j]
          /\ pos' > pos => <<r_buf'[pos'], g_buf'[pos'], b_buf'[pos']>>
                               \in Range(palette)
          /\ pc' = "done" =>
                 \A j \in Positions : image_converted'[j] \in Range(palette)
      ]_vars

\* A finished sweep under the Floyd-Steinberg weights in which an interior
\* pixel came out differently from its own nearest colour: error reached it
\* before it was visited.
C10_Witness ==
    /\ Diffused
    /\ offsets = FloydSteinberg
    /\ width >= 4 /\ height >= 3
    /\ \E j \in Positions :
           ~OnBorder(j) /\ image_converted[j] # Nearest(image_org[j])

====
